---------------------------- MODULE Spec2Model ----------------------------
(***************************************************************************)
(* tree64.c: ranked trees held as arrays of 64-bit descendant masks, the   *)
(* rank lookup, the RNNI distance routine and the random tree generator.   *)
(***************************************************************************)
EXTENDS Integers, Sequences, FiniteSets, TLC

(***************************************************************************)
(* Bounds of the model.                                                    *)
(***************************************************************************)
\* largest leaf count given to t64_rnni_distance
MaxN == 4
\* largest leaf count given to t64_random
GenMaxN == 4
\* largest leaf count given to rank() on arbitrary arrays
RankMaxN == 3

(***************************************************************************)
(* uint64_t and size_t.  Both are 64 bits wide and their arithmetic is     *)
(* arithmetic modulo 2^64.  TLC's integers are 32 bits wide, so a          *)
(* word is held as the residue of least magnitude of its value modulo 2^64 *)
(* (-1 is 0xFFFFFFFFFFFFFFFF, the value size_t takes when 0 is             *)
(* decremented).  + and - are exact on residues; &, |, popcount and the    *)
(* unsigned comparisons read a negative residue in two's complement.       *)
(***************************************************************************)
WordBits == 64

RECURSIVE BitAnd(_, _)
BitAnd(a, b) ==
    IF a = 0 \/ b = 0 THEN 0
    ELSE IF a = -1 THEN b
    ELSE IF b = -1 THEN a
    ELSE (a % 2) * (b % 2) + 2 * BitAnd(a \div 2, b \div 2)

RECURSIVE BitOr(_, _)
BitOr(a, b) ==
    IF a = 0 THEN b
    ELSE IF b = 0 THEN a
    ELSE IF a = -1 \/ b = -1 THEN -1
    ELSE (IF a % 2 = 1 \/ b % 2 = 1 THEN 1 ELSE 0) + 2 * BitOr(a \div 2, b \div 2)

RECURSIVE OnesOf(_)
OnesOf(a) == IF a = 0 THEN 0 ELSE (a % 2) + OnesOf(a \div 2)

\* __builtin_popcountll on a 64-bit word
popcount64(a) == IF a >= 0 THEN OnesOf(a) ELSE WordBits - OnesOf(-a - 1)

\* unsigned a < b and a <= b
ULt(a, b) == IF (a < 0) = (b < 0) THEN a < b ELSE b < 0
ULe(a, b) == a = b \/ ULt(a, b)

RECURSIVE Pow2(_)
Pow2(k) == IF k = 0 THEN 1 ELSE 2 * Pow2(k - 1)

(***************************************************************************)
(* rank(): the first index i of 0..n-2 with (v[i] & x) == x, or errx.      *)
(***************************************************************************)
RECURSIVE RankFrom(_, _, _, _)
RankFrom(nn, v, x, k) ==
    IF ~ULe(k, nn - 2) THEN [errx |-> TRUE, ret |-> 0]
    ELSE IF BitAnd(v[k], x) = x THEN [errx |-> FALSE, ret |-> k]
    ELSE RankFrom(nn, v, x, k + 1)

\* a scan that stops one entry early (i < n-2): the root is never tried
RECURSIVE RankShortFrom(_, _, _, _)
RankShortFrom(nn, v, x, k) ==
    IF ~ULt(k, nn - 2) THEN [errx |-> TRUE, ret |-> 0]
    ELSE IF BitAnd(v[k], x) = x THEN [errx |-> FALSE, ret |-> k]
    ELSE RankShortFrom(nn, v, x, k + 1)

RankShort(nn, v, x) == RankShortFrom(nn, v, x, 0)

\* a scan that keeps the last match instead of returning the first, and
\* returns the last index instead of failing
RECURSIVE RankLastFrom(_, _, _, _)
RankLastFrom(nn, v, x, k) ==
    IF k = 0 \/ BitAnd(v[k], x) = x THEN [errx |-> FALSE, ret |-> k]
    ELSE RankLastFrom(nn, v, x, k - 1)

RankLast(nn, v, x) == RankLastFrom(nn, v, x, nn - 2)

rank(nn, v, x) == RankFrom(nn, v, x, 0)


(***************************************************************************)
(* t64_random(): n active handles, one per leaf; each iteration joins two  *)
(* of them into the node of the next rank.  The draws a and b come from    *)
(* pcg32_boundedrand_r and are inputs of the iteration.                    *)
(***************************************************************************)
\* u[i] = 1ull << i for i < n
Leaves(nn) == [k \in 0..(nn - 1) |-> Pow2(k)]

\* the compaction left out: a and b may then name the same handle
CompactSkipped(u, a, j) == u

\* u[a] = u[j], j already decremented
Compact(u, a, j) == [u EXCEPT ![a] = u[j]]

\* one iteration of the joining loop, on g = [pc, n, u, v, i, j]
GenIter(g, a, b) ==
    LET j1 == g.j - 1
        va == g.u[a]
        u1 == Compact(g.u, a, j1)
        vi == BitOr(va, u1[b])
        u2 == [u1 EXCEPT ![b] = vi]
    IN  [g EXCEPT !.u = u2, !.v = [g.v EXCEPT ![g.i] = vi],
                  !.i = g.i + 1, !.j = j1]

\* the state at the head of the joining loop; entries of v not yet written
\* are never read and are held as 0
GenEntry(nn) ==
    [pc |-> "loop", n |-> nn, u |-> Leaves(nn),
     v |-> [k \in 0..(nn - 2) |-> 0], i |-> 0, j |-> nn]

\* every array v that t64_random can write for n leaves
RECURSIVE GenOutputs(_)
GenOutputs(g) ==
    IF ~(g.i < g.n - 1) THEN {g.v}
    ELSE UNION { GenOutputs(GenIter(g, a, b)) :
                    a \in 0..(g.j - 1), b \in 0..(g.j - 2) }

\* the trees main() hands to t64_rnni_distance, by leaf count
RankedTrees == [nn \in 2..MaxN |-> GenOutputs(GenEntry(nn))]

(***************************************************************************)
(* t64_rnni_distance(): the body of one pass of the while loop.            *)
(***************************************************************************)
\* for (j=r-1; j<=r-1; j--) { x = T1[j]; if ((u & x) == x) break; }
RECURSIVE ChildScan(_, _, _, _, _)
ChildScan(t, u, r1, j, x) ==
    IF ~ULe(j, r1) THEN [j |-> j, x |-> x]
    ELSE IF BitAnd(u, t[j]) = t[j] THEN [j |-> j, x |-> t[j]]
    ELSE ChildScan(t, u, r1, j - 1, t[j])

\* lines 60-96: the move at ranks r-1, r towards the target mask Ri.
\* kind names the branch taken; errx is the failure of line 82.
Move(t, Ri, rr) ==
    LET v == t[rr]
        u == t[rr - 1]
    IN  IF BitAnd(v, u) # 0
        THEN LET two == popcount64(u) = 2
                 \* x is first assigned inside the scan, whose body runs at
                 \* least once because j starts at r-1
                 sc == IF two THEN [j |-> 0, x |-> BitAnd(u, -u)]
                       ELSE ChildScan(t, u, rr - 1, rr - 1, 0)
                 x == sc.x
                 y == u - x
                 w == v - u
                 failed == ~two /\ ULt(rr - 1, sc.j)
                 new == IF BitAnd(Ri, x + w) = x + w THEN x + w ELSE y + w
             IN  [errx |-> failed,
                  kind |-> IF two THEN "leaves" ELSE "scan",
                  T1 |-> IF failed THEN t ELSE [t EXCEPT ![rr - 1] = new],
                  u |-> u, v |-> v, x |-> x, y |-> y, w |-> w, j |-> sc.j]
        ELSE [errx |-> FALSE, kind |-> "swap",
              T1 |-> [t EXCEPT ![rr] = u, ![rr - 1] = v],
              u |-> u, v |-> v, x |-> 0, y |-> 0, w |-> 0, j |-> 0]

NoMove == [errx |-> FALSE, kind |-> "none", u |-> 0, v |-> 0,
           x |-> 0, y |-> 0, w |-> 0, j |-> 0]

\* the whole function as one evaluation: the while loop, the for loop and
\* the returned count; errx is either failure
RECURSIVE WhileLoop(_, _, _, _, _)
WhileLoop(t, Ri, rr, ii, dd) ==
    IF ~ULt(ii, rr) THEN [errx |-> FALSE, T1 |-> t, d |-> dd]
    ELSE LET m == Move(t, Ri, rr)
         IN  IF m.errx THEN [errx |-> TRUE, T1 |-> t, d |-> dd]
             ELSE WhileLoop(m.T1, Ri, rr - 1, ii, dd + 1)

RECURSIVE ForLoop(_, _, _, _, _)
ForLoop(nn, t, Rr, ii, dd) ==
    IF ~ULt(ii, nn - 1) THEN [errx |-> FALSE, T1 |-> t, d |-> dd]
    ELSE LET k == rank(nn, t, Rr[ii])
         IN  IF k.errx THEN [errx |-> TRUE, T1 |-> t, d |-> dd]
             ELSE LET wl == WhileLoop(t, Rr[ii], k.ret, ii, dd)
                  IN  IF wl.errx THEN wl
                      ELSE ForLoop(nn, wl.T1, Rr, ii - 1, wl.d)

t64_rnni_distance(nn, Tt, Rr) == ForLoop(nn, Tt, Rr, nn - 2, 0)

(***************************************************************************)
(* State.                                                                  *)
(***************************************************************************)
VARIABLES
    n,      \* t64_rnni_distance: leaf count
    T, R,   \* its two argument trees, arrays indexed 0..n-2
    T1,     \* its working copy of T
    i, r,   \* loop variables (size_t)
    d,      \* move counter
    mv,     \* the block locals u, v, x, y, w, j of the latest pass of the
            \* while loop of this rank, and the branch it took
    pc,     \* position: "for", "while", "done", "errx_rank", "errx_child"
    gen,    \* t64_random: [n, u, v, i, j, pc]
    rk      \* a call of rank(): [n, v, x, pc, ret]

vars == <<n, T, R, T1, i, r, d, mv, pc, gen, rk>>

distVars == <<n, T, R, T1, i, r, d, mv, pc>>

(***************************************************************************)
(* t64_rnni_distance as steps.                                             *)
(***************************************************************************)
\* lines 50-57: n in range, T1 a copy of T, i = n-2; t64_random and rank
\* stand alone in the other specifications and are idle here
Init ==
    /\ n \in 2..MaxN
    /\ T \in RankedTrees[n]
    /\ R \in RankedTrees[n]
    /\ T1 = T
    /\ i = n - 2
    /\ r = 0
    /\ d = 0
    /\ mv = NoMove
    /\ pc = "for"
    /\ gen = [pc |-> "idle"]
    /\ rk = [pc |-> "idle"]

\* line 57 (condition true) and line 58
Lookup ==
    /\ pc = "for"
    /\ ULt(i, n - 1)
    /\ LET k == rank(n, T1, R[i])
       IN  IF k.errx
           THEN pc' = "errx_rank" /\ r' = r
           ELSE pc' = "while" /\ r' = k.ret
    /\ mv' = NoMove
    /\ UNCHANGED <<n, T, R, T1, i, d, gen, rk>>

\* line 59 (condition true), lines 60-98
Pass(kind) ==
    /\ pc = "while"
    /\ ULt(i, r)
    /\ LET m == Move(T1, R[i], r)
       IN  /\ m.kind = kind
           /\ mv' = [errx |-> m.errx, kind |-> m.kind, u |-> m.u, v |-> m.v,
                     x |-> m.x, y |-> m.y, w |-> m.w, j |-> m.j]
           /\ IF m.errx
              THEN pc' = "errx_child" /\ UNCHANGED <<T1, d, r>>
              ELSE /\ pc' = "while"
                   /\ T1' = m.T1
                   /\ d' = d + 1
                   /\ r' = r - 1
    /\ UNCHANGED <<n, T, R, i, gen, rk>>

RankSwap == Pass("swap")
NNILeaves == Pass("leaves")
NNIScan == Pass("scan")

\* line 59 (condition false), then i-- of line 57
NextRank ==
    /\ pc = "while"
    /\ ~ULt(i, r)
    /\ i' = i - 1
    /\ pc' = "for"
    /\ UNCHANGED <<n, T, R, T1, r, d, mv, gen, rk>>

\* line 57 (condition false), lines 102-104
Return ==
    /\ pc = "for"
    /\ ~ULt(i, n - 1)
    /\ pc' = "done"
    /\ UNCHANGED <<n, T, R, T1, i, r, d, mv, gen, rk>>

Next == Lookup \/ RankSwap \/ NNILeaves \/ NNIScan \/ NextRank \/ Return

Spec == Init /\ [][Next]_vars

(***************************************************************************)
(* t64_random as steps.                                                    *)
(***************************************************************************)
\* lines 119-130: n in range, the leaves in u, i = 0, j = n
GenInit ==
    /\ \E nn \in 2..GenMaxN : gen = GenEntry(nn)
    /\ n = 2 /\ T = <<>> /\ R = <<>> /\ T1 = <<>> /\ i = 0 /\ r = 0
    /\ d = 0 /\ mv = NoMove /\ pc = "idle"
    /\ rk = [pc |-> "idle"]

\* lines 130-141 with the two draws a in [0, j) and b in [0, j-1)
GenJoin ==
    /\ gen.pc = "loop"
    /\ gen.i < gen.n - 1
    /\ \E a \in 0..(gen.j - 1), b \in 0..(gen.j - 2) :
          gen' = GenIter(gen, a, b)
    /\ UNCHANGED <<distVars, rk>>

\* line 130 (condition false), line 144
GenReturn ==
    /\ gen.pc = "loop"
    /\ ~(gen.i < gen.n - 1)
    /\ gen' = [gen EXCEPT !.pc = "done"]
    /\ UNCHANGED <<distVars, rk>>

GenNext == GenJoin \/ GenReturn

SpecGen == GenInit /\ [][GenNext]_vars

(***************************************************************************)
(* rank() on any array of n-1 words and any word x.                        *)
(***************************************************************************)
Words(nn) == 0..(Pow2(nn) - 1)

RankInit ==
    \E nn \in 2..RankMaxN :
    \E v \in [0..(nn - 2) -> Words(nn)], x \in Words(nn) :
        /\ rk = [pc |-> "call", n |-> nn, v |-> v, x |-> x, ret |-> 0]
        /\ n = 2 /\ T = <<>> /\ R = <<>> /\ T1 = <<>> /\ i = 0 /\ r = 0
        /\ d = 0 /\ mv = NoMove /\ pc = "idle"
        /\ gen = [pc |-> "idle"]

\* line 33
RankReturn ==
    /\ rk.pc = "call"
    /\ LET k == rank(rk.n, rk.v, rk.x)
       IN  /\ ~k.errx
           /\ rk' = [rk EXCEPT !.pc = "returned", !.ret = k.ret]
    /\ UNCHANGED <<distVars, gen>>

\* line 36
RankErrx ==
    /\ rk.pc = "call"
    /\ rank(rk.n, rk.v, rk.x).errx
    /\ rk' = [rk EXCEPT !.pc = "errx"]
    /\ UNCHANGED <<distVars, gen>>

RankNext == RankReturn \/ RankErrx

SpecRank == RankInit /\ [][RankNext]_vars

(***************************************************************************)
(* Ranked trees and the RNNI graph, as the properties below speak of them. *)
(***************************************************************************)
Subset(a, b) == BitAnd(a, b) = a

LeafMasks(nn) == {Pow2(k) : k \in 0..(nn - 1)}

\* 1. the entry at rank n-2 has all n low bits set
RootIsFull(nn, t) == t[nn - 2] = Pow2(nn) - 1

\* 2. every entry is the disjoint union of two masks, each a leaf or an
\*    entry of lower rank
JoinsTwo(nn, t) ==
    \A q \in 0..(nn - 2) :
        LET parts == LeafMasks(nn) \cup {t[k] : k \in 0..(q - 1)}
        IN  \E a \in parts, b \in parts :
                BitAnd(a, b) = 0 /\ BitOr(a, b) = t[q]

\* 3. no entry is a leaf
NoLeafStored(nn, t) == \A q \in 0..(nn - 2) : t[q] \notin LeafMasks(nn)

\* 4. no mask at two ranks
NoDuplicate(nn, t) ==
    \A q1, q2 \in 0..(nn - 2) : q1 # q2 => t[q1] # t[q2]

WellFormed(nn, t) ==
    RootIsFull(nn, t) /\ JoinsTwo(nn, t) /\ NoLeafStored(nn, t)
    /\ NoDuplicate(nn, t)

\* entries pairwise disjoint or nested, none empty
Laminar(nn, t) ==
    /\ \A q \in 0..(nn - 2) : t[q] # 0
    /\ \A q1, q2 \in 0..(nn - 2) :
          BitAnd(t[q1], t[q2]) = 0 \/ Subset(t[q1], t[q2]) \/ Subset(t[q2], t[q1])

SetMax(S) == CHOOSE m \in S : \A k \in S : k <= m

\* the two children of the node at rank k of a well-formed tree
ChildrenOf(t, k) ==
    LET below == {q \in 0..(k - 1) : Subset(t[q], t[k])}
        x == IF below = {} THEN BitAnd(t[k], -t[k]) ELSE t[SetMax(below)]
    IN  {x, t[k] - x}

\* the trees one RNNI move away: (a) a swap of disjoint nodes at adjacent
\* ranks, (b) an NNI on an edge between adjacent ranks
Neighbours(nn, t) ==
    LET swaps == {q \in 1..(nn - 2) : BitAnd(t[q], t[q - 1]) = 0}
        edges == {q \in 1..(nn - 2) : BitAnd(t[q], t[q - 1]) # 0}
    IN  {[t EXCEPT ![q] = t[q - 1], ![q - 1] = t[q]] : q \in swaps}
        \cup UNION {{[t EXCEPT ![q - 1] = c + (t[q] - t[q - 1])] :
                        c \in ChildrenOf(t, q - 1)} : q \in edges}

RECURSIVE PathLen(_, _, _, _, _)
PathLen(nn, frontier, seen, target, depth) ==
    IF target \in frontier THEN depth
    ELSE IF frontier = {} THEN -1
    ELSE LET nxt == UNION {Neighbours(nn, t) : t \in frontier} \ seen
         IN  PathLen(nn, nxt, seen \cup nxt, target, depth + 1)

\* length of a shortest path from a to b in the RNNI graph
ShortestPath(nn, a, b) == PathLen(nn, {a}, {a}, b, 0)

\* the inputs of every run are well-formed ranked trees, and the steps
\* compute what one evaluation of the function computes
InputsWellFormed == pc # "idle" => WellFormed(n, T) /\ WellFormed(n, R)

StepsAgreeWithFunction ==
    pc = "done" => d = t64_rnni_distance(n, T, R).d /\ T1 = t64_rnni_distance(n, T, R).T1


(***************************************************************************)
(* Properties.                                                             *)
(***************************************************************************)

\* C1: the count returned by t64_rnni_distance(n, T, R) is the length of a
\* shortest path from T to R in the RNNI graph.
C1_ReturnsShortestPath ==
    pc = "done" => d = ShortestPath(n, T, R)

\* C2: symmetry: t64_rnni_distance(n, T, R) returns what
\* t64_rnni_distance(n, R, T) returns.
C2_Symmetric ==
    pc = "done" =>
        /\ ~t64_rnni_distance(n, R, T).errx
        /\ d = t64_rnni_distance(n, R, T).d

\* C3: self-distance: when R is T, every lookup rank(T1, T[i]) yields i, no
\* pass of the while loop is made, and the function returns 0.
C3_SelfDistanceZero ==
    (pc # "idle" /\ T = R) =>
        /\ d = 0
        /\ mv.kind = "none"
        /\ T1 = T
        /\ pc \in {"for", "while", "done"}
        /\ (pc = "while" => r = i)

C3_Witness ==
    pc = "done" /\ T = R /\ n = 4 /\ BitAnd(T[0], T[1]) = 0

\* C4: the array written by t64_random satisfies the four ranked-tree
\* invariants: full root mask at rank n-2, each entry the disjoint union of
\* two leaf-or-lower-rank masks, no leaf stored, no mask stored twice.
C4_GeneratorValid ==
    gen.pc = "done" => WellFormed(gen.n, gen.v)

C4_Witness ==
    gen.pc = "done" /\ gen.n = 4 /\ BitAnd(gen.v[0], gen.v[1]) = 0

\* C5: rank returns the smallest index whose entry contains x whenever one
\* exists, and ends in errx, returning nothing, when none does.
C5_RankFirstOrFatal ==
    LET hits == {k \in 0..(rk.n - 2) : BitAnd(rk.v[k], rk.x) = rk.x}
    IN  /\ rk.pc = "returned" =>
              /\ rk.ret \in hits
              /\ \A k \in hits : rk.ret <= k
        /\ rk.pc = "errx" => hits = {}

C5_Witness ==
    rk.pc = "errx" /\ rk.n = 3 /\ rk.x # 0 /\ rk.v[0] # 0 /\ rk.v[1] # 0

\* C6: on well-formed trees the function ends by returning a count, and
\* neither errx (line 36, line 82) is reached: no step enters an errx
\* position, and every step lowers a non-negative measure of the work left
\* (ranks still to visit, then passes still to make at this rank), which is
\* 0 exactly at the return.
C6_WorkLeft ==
    IF pc = "done" THEN 0
    ELSE IF pc = "for" THEN (i + 1) * (n + 1) + n
    ELSE (i + 1) * (n + 1) + 1 + (IF ULt(i, r) THEN r - i ELSE 0)

C6_Total ==
    [][ /\ pc' \notin {"errx_rank", "errx_child"}
        /\ C6_WorkLeft' >= 0
        /\ C6_WorkLeft' < C6_WorkLeft
        /\ (C6_WorkLeft' = 0 <=> pc' = "done") ]_vars

C6_Witness ==
    pc = "done" /\ n = 4 /\ d = 3 /\ T # R

\* C7: after every pass of the while loop the decremented r is the rank of
\* R[i] looked up again in the modified working tree.
C7_MoveLowersRankByOne ==
    (pc = "while" /\ mv.kind # "none") =>
        /\ ~rank(n, T1, R[i]).errx
        /\ rank(n, T1, R[i]).ret = r

\* C8: when the iteration for rank i has finished, T1[k] = R[k] for every
\* k >= i, and T1 equals R when the function returns.
C8_RanksFixedTopDown ==
    /\ pc = "for" => \A k \in 0..(n - 2) : k > i => T1[k] = R[k]
    /\ pc = "done" => T1 = R

\* C9: in the nested case with u not a pair of leaves, the scanned child x
\* is an entry at a rank strictly below r-1, a strict non-empty subset of
\* u, and y = u - x is non-empty.
C9_ScanFindsProperChild ==
    (pc = "while" /\ mv.kind = "scan") =>
        /\ mv.j < r
        /\ mv.x = T1[mv.j]
        /\ mv.x # 0
        /\ mv.x # mv.u
        /\ Subset(mv.x, mv.u)
        /\ mv.y # 0

\* C10: after every move the working copy T1 is a well-formed ranked tree
\* whose entries are pairwise disjoint or nested.
C10_WorkingTreeWellFormed ==
    pc \in {"for", "while", "done"} =>
        WellFormed(n, T1) /\ Laminar(n, T1)

============================================================================
